---------------------------- MODULE Spec2Model ----------------------------
(***************************************************************************)
(* Model of script.js: a seeded LCG (Random), a price path generator       *)
(* (simulateBitcoinPrices), a moving average annotator                     *)
(* (calculateMovingAverages) and a crossover strategy engine               *)
(* (runTradingStrategy), wired together by init().                         *)
(*                                                                         *)
(* JavaScript Numbers are IEEE 754 binary floating point values.  They are *)
(* modelled as binary floating point values of the same structure but of a *)
(* smaller format: MantBits bits of significand where binary64 has 53, and *)
(* exponents -ExpRange..ExpRange where binary64 has -1022..1023, with      *)
(* gradual underflow, round-to-nearest-even, overflow to Infinity and NaN. *)
(***************************************************************************)
EXTENDS Integers, Sequences, FiniteSets, TLC

(***************************************************************************)
(* Bounds of the model.                                                    *)
(***************************************************************************)
MantBits == 3
ExpRange == 40

(***************************************************************************)
(* JavaScript Number arithmetic.  A finite value is [m, e] = m * 2^e with  *)
(* Hidden <= m < 2*Hidden (normal) or e = EMin and m < Hidden (subnormal,  *)
(* zero included).  Only values >= 0 occur in the modelled code paths.     *)
(***************************************************************************)
RECURSIVE Pow2(_)
Pow2(k) == IF k <= 0 THEN 1 ELSE 2 * Pow2(k - 1)

Hidden == Pow2(MantBits - 1)
EMin == 0 - ExpRange - (MantBits - 1)
EMax == ExpRange - (MantBits - 1)

Zero == [m |-> 0, e |-> EMin]
Inf == [m |-> 0, e |-> EMax + 1]
NaN == [m |-> 1, e |-> EMax + 1]
MinSub == [m |-> 1, e |-> EMin]
MaxFinite == [m |-> 2 * Hidden - 1, e |-> EMax]

\* The Number k * 2^x for a significand k in Hidden..2*Hidden-1.
Num(k, x) == [m |-> k, e |-> x - (MantBits - 1)]
One == Num(Hidden, 0)

IsNaN(a) == a = NaN
IsInf(a) == a = Inf
IsZero(a) == a = Zero
IsFinite(a) == a.e <= EMax

RECURSIVE Bits(_)
Bits(q) == IF q = 0 THEN 0 ELSE 1 + Bits(q \div 2)

\* The least j >= 0 with floor(n * 2^j / d) >= Hidden, for n > 0.
RECURSIVE UpShift(_, _)
UpShift(n, d) == IF n \div d >= Hidden THEN 0 ELSE 1 + UpShift(2 * n, d)

\* Round-to-nearest-even of the exact value (n / d) * 2^e, n >= 0, d > 0.
RoundQ(n, d, e) ==
  IF n = 0 THEN Zero
  ELSE
    LET q == n \div d
        k0 == IF q >= Hidden THEN Bits(q) - MantBits ELSE 0 - UpShift(n, d)
        k == IF e + k0 < EMin THEN EMin - e ELSE k0
    IN  IF k > 30 \/ Pow2(k) > 2 * n THEN Zero
        ELSE
          LET num == IF k >= 0 THEN n ELSE n * Pow2(0 - k)
              den == IF k >= 0 THEN d * Pow2(k) ELSE d
              m0 == num \div den
              rem == num % den
              up == 2 * rem > den \/ (2 * rem = den /\ m0 % 2 = 1)
              m1 == IF up THEN m0 + 1 ELSE m0
              m2 == IF m1 = 2 * Hidden THEN Hidden ELSE m1
              e2 == IF m1 = 2 * Hidden THEN e + k + 1 ELSE e + k
          IN  IF e2 > EMax THEN Inf ELSE [m |-> m2, e |-> e2]

\* a + b for a, b >= 0
FAdd(a, b) ==
  IF IsNaN(a) \/ IsNaN(b) THEN NaN
  ELSE IF IsInf(a) \/ IsInf(b) THEN Inf
  ELSE LET hi == IF a.e >= b.e THEN a ELSE b
           lo == IF a.e >= b.e THEN b ELSE a
           diff == hi.e - lo.e
       IN  IF diff > MantBits + 1 THEN hi
           ELSE RoundQ(hi.m * Pow2(diff) + lo.m, 1, lo.e)

\* a * b for a, b >= 0
FMul(a, b) ==
  IF IsNaN(a) \/ IsNaN(b) THEN NaN
  ELSE IF (IsInf(a) /\ IsZero(b)) \/ (IsZero(a) /\ IsInf(b)) THEN NaN
  ELSE IF IsInf(a) \/ IsInf(b) THEN Inf
  ELSE RoundQ(a.m * b.m, 1, a.e + b.e)

\* a / b for a, b >= 0
FDiv(a, b) ==
  IF IsNaN(a) \/ IsNaN(b) THEN NaN
  ELSE IF (IsInf(a) /\ IsInf(b)) \/ (IsZero(a) /\ IsZero(b)) THEN NaN
  ELSE IF IsInf(a) \/ IsZero(b) THEN Inf
  ELSE IF IsInf(b) THEN Zero
  ELSE RoundQ(a.m, b.m, a.e - b.e)

\* a / n for an integer n >= 0 (an array length)
FDivInt(a, n) ==
  IF IsNaN(a) THEN NaN
  ELSE IF n = 0 THEN (IF IsZero(a) THEN NaN ELSE Inf)
  ELSE IF IsInf(a) THEN Inf
  ELSE RoundQ(a.m, n, a.e)

\* a > b and a < b (false when either is NaN)
FGt(a, b) ==
  ~IsNaN(a) /\ ~IsNaN(b) /\ (a.e > b.e \/ (a.e = b.e /\ a.m > b.m))

FLt(a, b) == FGt(b, a)


\* null, as stored in sma7 and sma30 (a value distinct from every Number)
Null == [m |-> 0, e |-> EMax + 2]

(***************************************************************************)
(* More bounds, and the inputs the model draws.                            *)
(***************************************************************************)
MaxDays == 31
MaxRunDays == 4
MaxRuns == 3
MaxRows == 3
MaxDraws == 16
MaxPasses == 2

\* Seeds as 16-bit limbs [hi, lo]: 123 (CONFIG.seed), the state whose next
\* draw is exactly 0, and the state before that one.
Seeds ==
  { [hi |-> 0, lo |-> 123, neg |-> FALSE],
    [hi |-> 9686, lo |-> 4069, neg |-> FALSE],
    [hi |-> 63335, lo |-> 798, neg |-> FALSE] }

\* sigma in units of ln 2; mu = l * ln 2 + q * (ln 2)^2 / 2, chosen so that
\* mu - 0.5 * sigma^2 is a multiple of ln 2.
Volatility == { [mu |-> [l |-> 0, q |-> 0], sigma |-> 0],
                [mu |-> [l |-> 0, q |-> 1], sigma |-> 1] }

InitialPrices == { One, Num(Hidden + 2, 0) }
InitialCashes == { One, Num(Hidden + 1, 3) }

Configs(maxDays) ==
  { [days |-> d, initialPrice |-> p, mu |-> v.mu, sigma |-> v.sigma,
     initialCash |-> c, seed |-> s] :
       d \in 0..maxDays, p \in InitialPrices, v \in Volatility,
       c \in InitialCashes, s \in Seeds }

\* CONFIG objects that are not valid: initialPrice <= 0, initialCash <= 0,
\* days < 0 or sigma < 0 (0 stands for the prices and amounts <= 0).
IsInvalid(c) ==
  IsZero(c.initialPrice) \/ IsZero(c.initialCash) \/ c.days < 0 \/ c.sigma < 0

InvalidConfigs ==
  { c \in { [days |-> d, initialPrice |-> p, mu |-> v.mu, sigma |-> v.sigma,
             initialCash |-> a, seed |-> [hi |-> 0, lo |-> 123, neg |-> FALSE]] :
               d \in (-1)..MaxRunDays, p \in {Zero, One}, a \in {Zero, One},
               v \in Volatility \cup {[mu |-> [l |-> 0, q |-> 1], sigma |-> -1]} } :
      IsInvalid(c) }

\* Inputs of runTradingStrategy called on its own: any positive finite
\* price, any sma7/sma30 present or absent, any positive finite initialCash.
RowPrices == { Num(Hidden, -1), Num(Hidden, 1) }
AnyRowPrices == { Zero, Num(Hidden, 1) }
RowSmas == { Null, One, Num(Hidden, 1) }
RowCashes == { MinSub, [m |-> 2, e |-> EMin], Num(Hidden + 1, 0), MaxFinite }

\* calls and passes are history variables: calls lists the calls of the
\* generator's methods made since the script was loaded or the current call
\* of simulateBitcoinPrices began, passes the value returned by each call of
\* calculateMovingAverages (as runs does for simulateBitcoinPrices).
VARIABLES CONFIG, seed, prices, i, data, cash, btcHoldings, position,
          summaryData, pc, runs, start, calls, passes

vars == << CONFIG, seed, prices, i, data, cash, btcHoldings, position,
           summaryData, pc, runs, start, calls, passes >>

(***************************************************************************)
(* class Random                                                            *)
(***************************************************************************)
LimbBase == 65536
ALo == 26125
AHi == 25
CLo == 62303
CHi == 15470

\* A non-negative integer below 2^64 as four 16-bit limbs << l0, l1, l2, l3 >>
\* (l0 the lowest): the exact value of a double that holds an integer.
Limbs(l0, l1, l2, l3) == << l0, l1, l2, l3 >>

LimbAdd(a, b) ==
  LET r0 == a[1] + b[1]
      r1 == a[2] + b[2] + (r0 \div LimbBase)
      r2 == a[3] + b[3] + (r1 \div LimbBase)
      r3 == a[4] + b[4] + (r2 \div LimbBase)
  IN  Limbs(r0 % LimbBase, r1 % LimbBase, r2 % LimbBase, r3)

\* a <= b
LimbLe(a, b) ==
  \/ a = b
  \/ \E k \in 1..4 : a[k] < b[k] /\ \A j \in (k + 1)..4 : a[j] = b[j]

\* a - b for b <= a
LimbSub(a, b) ==
  LET r0 == a[1] - b[1]
      r1 == a[2] - b[2] - (IF r0 < 0 THEN 1 ELSE 0)
      r2 == a[3] - b[3] - (IF r1 < 0 THEN 1 ELSE 0)
      r3 == a[4] - b[4] - (IF r2 < 0 THEN 1 ELSE 0)
  IN  Limbs(r0 % LimbBase, r1 % LimbBase, r2 % LimbBase, r3)

\* The generator's state this.seed: an integer of magnitude below 2^32 as
\* 16-bit limbs [hi, lo] and its sign (neg).
State(hi, lo) == [hi |-> hi, lo |-> lo, neg |-> FALSE]
Negative(hi, lo) == [hi |-> hi, lo |-> lo, neg |-> TRUE]

\* (mutant) the multiplier is 22695477 = 346 * 2^16 + 20021
Product_WideMultiplier(s) ==
  LET q0 == 20021 * s.lo
      q1 == 346 * s.lo + 20021 * s.hi + (q0 \div LimbBase)
      q2 == 346 * s.hi + (q1 \div LimbBase)
  IN  Limbs(q0 % LimbBase, q1 % LimbBase, q2 % LimbBase, q2 \div LimbBase)

\* the magnitude of 1664525 * this.seed (1664525 = AHi * 2^16 + ALo)
Product(s) ==
  LET q0 == ALo * s.lo
      q1 == AHi * s.lo + ALo * s.hi + (q0 \div LimbBase)
      q2 == AHi * s.hi + (q1 \div LimbBase)
  IN  Limbs(q0 % LimbBase, q1 % LimbBase, q2 % LimbBase, q2 \div LimbBase)

\* 1664525 * this.seed + 1013904223, sign and magnitude, as the integer it
\* is (1013904223 = CHi * 2^16 + CLo)
Intermediate(s) ==
  LET c == Limbs(CLo, CHi, 0, 0)
      p == Product(s)
  IN  IF ~s.neg THEN [neg |-> FALSE, limbs |-> LimbAdd(p, c)]
      ELSE IF LimbLe(p, c) THEN [neg |-> FALSE, limbs |-> LimbSub(c, p)]
      ELSE [neg |-> TRUE, limbs |-> LimbSub(p, c)]

\* x % 4294967296: the remainder has the sign of the dividend x
Remainder(x) ==
  [hi |-> x.limbs[2], lo |-> x.limbs[1],
   neg |-> x.neg /\ (x.limbs[1] # 0 \/ x.limbs[2] # 0)]

\* random(): this.seed = (1664525 * this.seed + 1013904223) % 4294967296.
\* The returned value this.seed / 4294967296 is exact and is represented
\* by its numerator, the new state.
RandomNext(s) == Remainder(Intermediate(s))

UniformIsZero(s) == s.hi = 0 /\ s.lo = 0

\* (mutant) a draw of exactly 0 is kept
DrawNonZero_KeepsZero(s) == RandomNext(s)

\* while (u === 0) u = this.random(): the state after the loop
RECURSIVE DrawNonZero(_)
DrawNonZero(s) ==
  LET s1 == RandomNext(s)
  IN  IF UniformIsZero(s1) THEN DrawNonZero(s1) ELSE s1

\* the number of random() calls that loop makes
RECURSIVE DrawCount(_)
DrawCount(s) ==
  LET s1 == RandomNext(s)
  IN  IF UniformIsZero(s1) THEN 1 + DrawCount(s1) ELSE 1

\* Math.sqrt(-2.0 * Math.log(u)) to the nearest integer, capped at 3
\* (the thresholds are exp(-r^2/2) * 2^16 for r = 0.5, 1.5, 2.5).
SqrtLog(u) ==
  IF u.hi >= 57835 THEN 0
  ELSE IF u.hi >= 21276 THEN 1
  ELSE IF u.hi >= 2879 THEN 2 ELSE 3

\* Math.cos(2.0 * Math.PI * v) to the nearest of -1, 0, 1
\* (the thresholds are 2^16 / 6, 2^16 / 3, 2^16 * 2 / 3 and 2^16 * 5 / 6).
CosTwoPi(v) ==
  IF v.hi < 10923 \/ v.hi >= 54613 THEN 1
  ELSE IF v.hi >= 21845 /\ v.hi < 43691 THEN -1 ELSE 0

\* normal(): the value returned and the state it leaves
\* (u and v are the values passed to Math.log and Math.cos, draws the
\* number of random() calls made)
Normal(s) ==
  LET u == DrawNonZero(s)
      v == DrawNonZero(u)
  IN  [value |-> SqrtLog(u) * CosTwoPi(v), seed |-> v, u |-> u, v |-> v,
       draws |-> DrawCount(s) + DrawCount(u)]

\* The seeds given to new Random(seed) on its own: those of Seeds, 0, the
\* largest state 2^32 - 1, and the negative integers -1000 and -(2^32 - 1).
RandomSeeds ==
  Seeds \cup { State(0, 0), State(65535, 65535), Negative(0, 1000),
               Negative(65535, 65535) }

\* The entries of calls: a call of random() on state before, leaving state
\* after and returning after / 4294967296, and a call of normal() that
\* returned the record n.
RandomCall(before, after) ==
  [method |-> "random", before |-> before, after |-> after]

NormalCall(before, n) ==
  [method |-> "normal", before |-> before, after |-> n.seed, u |-> n.u,
   v |-> n.v, draws |-> n.draws]

\* a caller of rng.random() (class Random is exported)
Random_random ==
  /\ pc = "loaded"
  /\ Len(calls) < MaxDraws
  /\ seed' = RandomNext(seed)
  /\ calls' = Append(calls, RandomCall(seed, RandomNext(seed)))
  /\ UNCHANGED << CONFIG, prices, i, data, cash, btcHoldings, position,
                  summaryData, pc, runs, start, passes >>

(***************************************************************************)
(* simulateBitcoinPrices                                                   *)
(***************************************************************************)
\* (mu - 0.5 * Math.pow(sigma, 2)) * dt, in units of ln 2: the terms in
\* (ln 2)^2 / 2 cancel for every (mu, sigma) of Volatility.
Drift(mu, sigma) == mu.l + (mu.q - sigma * sigma)

\* sigma * Math.sqrt(dt) * rng.normal(), in units of ln 2
Shock(sigma, z) == sigma * z

\* Math.exp(x) for x = n * ln 2
Exp(n) == Num(Hidden, n)

NextPrice(prevPrice, mu, sigma, z) ==
  FMul(prevPrice, Exp(Drift(mu, sigma) + Shock(sigma, z)))

\* prices.map((price, index) => ({day: index + 1, price, sma7: null, sma30: null}))
ToRecords(ps) ==
  [k \in 1..Len(ps) |->
     [day |-> k, price |-> ps[k], sma7 |-> Null, sma30 |-> Null]]

\* (mutant) the loop runs once more
LoopContinues_Once_More(ix, days) == ix < days

\* the loop test i < days - 1
LoopContinues(ix, days) == ix < days - 1

\* (mutant) each call starts the generator again from CONFIG.seed
SimulateBegin_Reseeds ==
  /\ prices' = << CONFIG.initialPrice >>
  /\ i' = 0
  /\ seed' = CONFIG.seed
  /\ start' = [seed |-> CONFIG.seed, fresh |-> pc = "loaded"]
  /\ pc' = "simulate"
  /\ calls' = << >>
  /\ UNCHANGED << CONFIG, data, cash, btcHoldings, position, summaryData,
                  runs, passes >>

\* const prices = [initialPrice]; const dt = 1; the loop starts at i = 0
SimulateBegin ==
  /\ prices' = << CONFIG.initialPrice >>
  /\ i' = 0
  /\ start' = [seed |-> seed, fresh |-> pc = "loaded"]
  /\ pc' = "simulate"
  /\ calls' = << >>
  /\ UNCHANGED << CONFIG, seed, data, cash, btcHoldings, position,
                  summaryData, runs, passes >>

\* init(): let data = simulateBitcoinPrices(CONFIG.days, ...)
Init_Simulate ==
  /\ pc = "loaded"
  /\ SimulateBegin

\* a caller of the exported simulateBitcoinPrices (module.exports)
Call_Simulate ==
  /\ pc \in {"loaded", "returned"}
  /\ Len(runs) < MaxRuns
  /\ SimulateBegin

\* one iteration of for (let i = 0; i < days - 1; i++)
Simulate_Iter ==
  /\ pc = "simulate"
  /\ LoopContinues(i, CONFIG.days)
  /\ LET prevPrice == prices[Len(prices)]
         n == Normal(seed)
     IN  /\ prices' = Append(prices,
                        NextPrice(prevPrice, CONFIG.mu, CONFIG.sigma, n.value))
         /\ seed' = n.seed
         /\ calls' = Append(calls, NormalCall(seed, n))
  /\ i' = i + 1
  /\ UNCHANGED << CONFIG, data, cash, btcHoldings, position, summaryData,
                  pc, runs, start, passes >>

\* the loop ends; return prices.map(...)
Simulate_Return ==
  /\ pc = "simulate"
  /\ ~LoopContinues(i, CONFIG.days)
  /\ data' = ToRecords(prices)
  /\ runs' = Append(runs, [start |-> start.seed, fresh |-> start.fresh,
                           out |-> ToRecords(prices), calls |-> calls,
                           end |-> seed])
  /\ pc' = "returned"
  /\ UNCHANGED << CONFIG, seed, prices, i, cash, btcHoldings, position,
                  summaryData, start, calls, passes >>

\* (mutant) loading the script leaves the generator's state as it was
Load_NoReseed ==
  /\ pc = "returned"
  /\ Len(runs) < MaxRuns
  /\ pc' = "loaded"
  /\ UNCHANGED << CONFIG, seed, prices, i, data, cash, btcHoldings, position,
                  summaryData, runs, start, calls, passes >>

\* the script is loaded again: const rng = new Random(CONFIG.seed)
Load ==
  /\ pc = "returned"
  /\ Len(runs) < MaxRuns
  /\ seed' = CONFIG.seed
  /\ calls' = << >>
  /\ pc' = "loaded"
  /\ UNCHANGED << CONFIG, prices, i, data, cash, btcHoldings, position,
                  summaryData, runs, start, passes >>

(***************************************************************************)
(* calculateMovingAverages                                                 *)
(***************************************************************************)
Max(a, b) == IF a >= b THEN a ELSE b
Min(a, b) == IF a <= b THEN a ELSE b

\* Array.prototype.slice(from, to), indices 0-based, negative ones counted
\* from the end
Slice(arr, from, to) ==
  LET len == Len(arr)
      f == IF from < 0 THEN Max(len + from, 0) ELSE Min(from, len)
      t == IF to < 0 THEN Max(len + to, 0) ELSE Min(to, len)
  IN  IF f >= t THEN << >> ELSE SubSeq(arr, f + 1, t)

\* .map(d => d.price)
Prices(arr) == [k \in 1..Len(arr) |-> arr[k].price]

\* arr.reduce((a, b) => a + b, 0) over the first k elements
RECURSIVE Reduce(_, _)
Reduce(arr, k) == IF k = 0 THEN Zero ELSE FAdd(Reduce(arr, k - 1), arr[k])

\* const mean = (arr) => arr.reduce((a, b) => a + b, 0) / arr.length
Mean(arr) == FDivInt(Reduce(arr, Len(arr)), Len(arr))

\* if (i >= 6) and if (i >= 29), for the 0-based index ix
Sma7Ready(ix) == ix >= 6

\* (mutant) the 30-day average starts with the 7-day one
Sma30Ready_WithSma7(ix) == ix >= 6

\* (mutant) the 30-day average starts a day late
Sma30Ready_Late(ix) == ix > 29

Sma30Ready(ix) == ix >= 29

\* data.slice(i - 6, i + 1).map(d => d.price) and its 30-day counterpart
\* (mutant) the 7-day window leaves the current day out
Window7_WithoutToday(arr, ix) == Prices(Slice(arr, ix - 7, ix))

Window7(arr, ix) == Prices(Slice(arr, ix - 6, ix + 1))
Window30(arr, ix) == Prices(Slice(arr, ix - 29, ix + 1))

\* (mutant) the price is replaced by the 7-day average
Annotate_SmoothsPrice(arr, ix) ==
  LET d == arr[ix + 1]
      s7 == IF Sma7Ready(ix) THEN Mean(Window7(arr, ix)) ELSE d.sma7
      s30 == IF Sma30Ready(ix) THEN Mean(Window30(arr, ix)) ELSE d.sma30
  IN  [d EXCEPT !.sma7 = s7, !.sma30 = s30,
                !.price = IF Sma7Ready(ix) THEN s7 ELSE d.price]

\* the loop body for index ix: the record data[ix] after it
Annotate(arr, ix) ==
  LET d == arr[ix + 1]
      s7 == IF Sma7Ready(ix) THEN Mean(Window7(arr, ix)) ELSE d.sma7
      s30 == IF Sma30Ready(ix) THEN Mean(Window30(arr, ix)) ELSE d.sma30
  IN  [d EXCEPT !.sma7 = s7, !.sma30 = s30]

\* init(): data = calculateMovingAverages(data); the loop starts at i = 0
Init_MovingAverages ==
  /\ pc = "returned"
  /\ i' = 0
  /\ pc' = "averages"
  /\ UNCHANGED << CONFIG, seed, prices, data, cash, btcHoldings, position,
                  summaryData, runs, start, calls, passes >>

\* one iteration of for (let i = 0; i < data.length; i++)
MovingAverages_Iter ==
  /\ pc = "averages"
  /\ i < Len(data)
  /\ data' = [data EXCEPT ![i + 1] = Annotate(data, i)]
  /\ i' = i + 1
  /\ UNCHANGED << CONFIG, seed, prices, cash, btcHoldings, position,
                  summaryData, pc, runs, start, calls, passes >>

\* the loop ends; return data
MovingAverages_Return ==
  /\ pc = "averages"
  /\ ~(i < Len(data))
  /\ passes' = Append(passes, data)
  /\ pc' = "annotated"
  /\ UNCHANGED << CONFIG, seed, prices, i, data, cash, btcHoldings, position,
                  summaryData, runs, start, calls >>

\* a caller of the exported calculateMovingAverages, on the records it
\* returned before
Call_MovingAverages ==
  /\ pc = "annotated"
  /\ Len(passes) < MaxPasses
  /\ i' = 0
  /\ pc' = "averages"
  /\ UNCHANGED << CONFIG, seed, prices, data, cash, btcHoldings, position,
                  summaryData, runs, start, calls, passes >>

(***************************************************************************)
(* runTradingStrategy                                                      *)
(***************************************************************************)
\* (mutant) only sma7 is tested for null
BothPresent_Sma7Only(row) == row.sma7 # Null

\* sma7 !== null && sma30 !== null
BothPresent(row) == row.sma7 # Null /\ row.sma30 # Null

\* (mutant) the buy signal does not test the position
BuySignal_AnyPosition(row, pos) ==
  BothPresent(row) /\ FGt(row.sma7, row.sma30)

\* sma7 > sma30 && position === "CASH", inside the null check
BuySignal(row, pos) ==
  BothPresent(row) /\ FGt(row.sma7, row.sma30) /\ pos = "CASH"

\* (mutant) the sell signal also fires when sma7 == sma30
SellSignal_OnTie(row, pos) ==
  BothPresent(row) /\ ~BuySignal(row, pos)
    /\ ~FGt(row.sma7, row.sma30) /\ pos = "BTC"

\* else if (sma7 < sma30 && position === "BTC")
SellSignal(row, pos) ==
  BothPresent(row) /\ ~BuySignal(row, pos)
    /\ FLt(row.sma7, row.sma30) /\ pos = "BTC"

\* btcHoldings = cash / price
BuyHoldings(c, price) == FDiv(c, price)

\* cash = btcHoldings * price
SellCash(h, price) == FMul(h, price)

\* (mutant) the holdings are not valued at the day's price
CurrentValue_Unpriced(c, h, price) == FAdd(c, h)

\* const currentValue = cash + (btcHoldings * price)
CurrentValue(c, h, price) == FAdd(c, FMul(h, price))

\* let action = "HOLD", then the trading logic's choice
Decide(row, pos) ==
  IF BuySignal(row, pos) THEN "BUY"
  ELSE IF SellSignal(row, pos) THEN "SELL" ELSE "HOLD"

\* (mutant) a BUY leaves cash as it was
CashAfter_KeptOnBuy(action, c, h, price) ==
  IF action = "SELL" THEN SellCash(h, price) ELSE c

\* cash after the trading logic: cash = 0 (BUY), cash = btcHoldings * price
\* (SELL), untouched (HOLD)
CashAfter(action, c, h, price) ==
  IF action = "BUY" THEN Zero
  ELSE IF action = "SELL" THEN SellCash(h, price) ELSE c

\* btcHoldings after the trading logic: btcHoldings = cash / price (BUY),
\* btcHoldings = 0 (SELL), untouched (HOLD)
HoldingsAfter(action, c, h, price) ==
  IF action = "BUY" THEN BuyHoldings(c, price)
  ELSE IF action = "SELL" THEN Zero ELSE h

\* (mutant) a BUY leaves the position as it was
PositionAfter_KeptOnBuy(action, pos) ==
  IF action = "SELL" THEN "CASH" ELSE pos

\* position after the trading logic
PositionAfter(action, pos) ==
  IF action = "BUY" THEN "BTC" ELSE IF action = "SELL" THEN "CASH" ELSE pos

\* summaryData.push({...row, action, portfolioValue, holdings, cash})
LedgerRecord(row, action, c, h) ==
  [day |-> row.day, price |-> row.price, sma7 |-> row.sma7,
   sma30 |-> row.sma30, action |-> action,
   portfolioValue |-> CurrentValue(c, h, row.price),
   holdings |-> h, cash |-> c]

\* (mutant) the record is put in front of the ledger
Push_InFront(arr, rec) == << rec >> \o arr

\* summaryData.push(...)
Push(arr, rec) == Append(arr, rec)

\* the body of data.forEach((row, index) => ...) for one row
ProcessRow(row) ==
  LET action == Decide(row, position)
      c == CashAfter(action, cash, btcHoldings, row.price)
      h == HoldingsAfter(action, cash, btcHoldings, row.price)
  IN  /\ btcHoldings' = h
      /\ cash' = c
      /\ position' = PositionAfter(action, position)
      /\ summaryData' = Push(summaryData, LedgerRecord(row, action, c, h))

\* init(): const results = runTradingStrategy(data, CONFIG.initialCash)
Init_Strategy ==
  /\ pc = "annotated"
  /\ cash' = CONFIG.initialCash
  /\ btcHoldings' = Zero
  /\ position' = "CASH"
  /\ summaryData' = << >>
  /\ i' = 0
  /\ pc' = "strategy"
  /\ UNCHANGED << CONFIG, seed, prices, data, runs, start, calls, passes >>

\* one callback of data.forEach, on the row at index i
Strategy_Row ==
  /\ pc = "strategy"
  /\ i < Len(data)
  /\ ProcessRow(data[i + 1])
  /\ i' = i + 1
  /\ UNCHANGED << CONFIG, seed, prices, data, pc, runs, start, calls, passes >>

\* forEach ends; return summaryData
Strategy_Return ==
  /\ pc = "strategy"
  /\ ~(i < Len(data))
  /\ pc' = "done"
  /\ UNCHANGED << CONFIG, seed, prices, i, data, cash, btcHoldings, position,
                  summaryData, runs, start, calls, passes >>

\* runTradingStrategy called on its own: the caller's next input row is
\* appended to data as the callback for it runs
InputRow(rowPrices) ==
  /\ pc = "strategy"
  /\ runs = << >>
  /\ i = Len(data)
  /\ Len(data) < MaxRows
  /\ \E p \in rowPrices, s7 \in RowSmas, s30 \in RowSmas :
       LET row == [day |-> Len(data) + 1, price |-> p, sma7 |-> s7,
                   sma30 |-> s30]
       IN  /\ data' = Append(data, row)
           /\ ProcessRow(row)
  /\ i' = i + 1
  /\ UNCHANGED << CONFIG, seed, prices, pc, runs, start, calls, passes >>

\* a caller whose rows have positive prices
Strategy_InputRow == InputRow(RowPrices)

\* a caller whose rows may have the price 0
Strategy_InputAnyRow == InputRow(AnyRowPrices)

(***************************************************************************)
(* Specifications                                                          *)
(***************************************************************************)
Idle ==
  /\ prices = << >>
  /\ i = 0
  /\ data = << >>
  /\ cash = Zero
  /\ btcHoldings = Zero
  /\ position = "CASH"
  /\ summaryData = << >>
  /\ runs = << >>
  /\ calls = << >>
  /\ passes = << >>

\* The script is loaded (const rng = new Random(CONFIG.seed)) and init()
\* runs the pipeline once.
Init ==
  /\ CONFIG \in Configs(MaxDays)
  /\ seed = CONFIG.seed
  /\ start = [seed |-> CONFIG.seed, fresh |-> TRUE]
  /\ pc = "loaded"
  /\ Idle

Next ==
  \/ Init_Simulate
  \/ Simulate_Iter
  \/ Simulate_Return
  \/ Init_MovingAverages
  \/ MovingAverages_Iter
  \/ MovingAverages_Return
  \/ Init_Strategy
  \/ Strategy_Row
  \/ Strategy_Return

Spec == Init /\ [][Next]_vars

\* The script is loaded and simulateBitcoinPrices is called several times,
\* the script being loaded again between some of the calls.
InitRuns ==
  /\ CONFIG \in Configs(MaxRunDays)
  /\ seed = CONFIG.seed
  /\ start = [seed |-> CONFIG.seed, fresh |-> TRUE]
  /\ pc = "loaded"
  /\ Idle

NextRuns ==
  \/ Call_Simulate
  \/ Simulate_Iter
  \/ Simulate_Return
  \/ Load

SpecRuns == InitRuns /\ [][NextRuns]_vars

\* runTradingStrategy is called on its own with any rows and initialCash.
InitStrategy ==
  /\ CONFIG \in { [days |-> 0, initialPrice |-> One,
                   mu |-> [l |-> 0, q |-> 0], sigma |-> 0,
                   initialCash |-> c,
                   seed |-> [hi |-> 0, lo |-> 123, neg |-> FALSE]] :
                    c \in RowCashes }
  /\ seed = CONFIG.seed
  /\ start = [seed |-> CONFIG.seed, fresh |-> TRUE]
  /\ prices = << >>
  /\ i = 0
  /\ data = << >>
  /\ cash = CONFIG.initialCash
  /\ btcHoldings = Zero
  /\ position = "CASH"
  /\ summaryData = << >>
  /\ runs = << >>
  /\ calls = << >>
  /\ passes = << >>
  /\ pc = "strategy"

NextStrategy ==
  \/ Strategy_InputRow
  \/ Strategy_Return

SpecStrategy == InitStrategy /\ [][NextStrategy]_vars

\* simulateBitcoinPrices' records are passed to calculateMovingAverages, and
\* its result is passed to it again.
NextAverages ==
  \/ Init_Simulate
  \/ Simulate_Iter
  \/ Simulate_Return
  \/ Init_MovingAverages
  \/ MovingAverages_Iter
  \/ MovingAverages_Return
  \/ Call_MovingAverages

SpecAverages == Init /\ [][NextAverages]_vars

\* Every ledger: runTradingStrategy is called by init() on the records of
\* calculateMovingAverages, or on its own with any rows.
InitLedgers == Init \/ InitStrategy

NextLedgers ==
  \/ Init_Simulate
  \/ Simulate_Iter
  \/ Simulate_Return
  \/ Init_MovingAverages
  \/ MovingAverages_Iter
  \/ MovingAverages_Return
  \/ Init_Strategy
  \/ Strategy_Row
  \/ Strategy_InputRow
  \/ Strategy_Return

SpecLedgers == InitLedgers /\ [][NextLedgers]_vars

\* runTradingStrategy is called on its own with rows that need not be valid.
NextStrategyAny ==
  \/ Strategy_InputAnyRow
  \/ Strategy_Return

SpecStrategyAny == InitStrategy /\ [][NextStrategyAny]_vars

\* The script is loaded with a CONFIG that is not valid and init() runs.
InitInvalid ==
  /\ CONFIG \in InvalidConfigs
  /\ seed = CONFIG.seed
  /\ start = [seed |-> CONFIG.seed, fresh |-> TRUE]
  /\ pc = "loaded"
  /\ Idle

SpecInvalid == InitInvalid /\ [][Next]_vars

\* new Random(seed) is constructed with any integer seed and random() is
\* called on it.
InitRandom ==
  /\ CONFIG \in { [days |-> 0, initialPrice |-> One,
                   mu |-> [l |-> 0, q |-> 0], sigma |-> 0,
                   initialCash |-> One, seed |-> s] : s \in RandomSeeds }
  /\ seed = CONFIG.seed
  /\ start = [seed |-> CONFIG.seed, fresh |-> TRUE]
  /\ pc = "loaded"
  /\ Idle

NextRandom == Random_random

SpecRandom == InitRandom /\ [][NextRandom]_vars

(***************************************************************************)
(* Exact comparisons, used to state when a quotient or product is too      *)
(* small for any positive Number.                                          *)
(***************************************************************************)
\* m1 * 2^e1 <= m2 * 2^e2, exactly, for 0 <= m1, m2 < 2^(2 * MantBits)
ExactLe(m1, e1, m2, e2) ==
  LET d == e1 - e2
      far == 2 * MantBits + 2
  IN  IF m1 = 0 THEN TRUE
      ELSE IF m2 = 0 THEN FALSE
      ELSE IF d > far THEN FALSE
      ELSE IF d < 0 - far THEN TRUE
      ELSE IF d >= 0 THEN m1 * Pow2(d) <= m2
      ELSE m1 <= m2 * Pow2(0 - d)

\* the exact quotient c / price is at most half the smallest positive Number
QuotientUnderflows(c, price) ==
  IsFinite(c) /\ ExactLe(c.m, c.e + 1, price.m, price.e + EMin)

\* the exact product h * price is at most half the smallest positive Number
ProductUnderflows(h, price) ==
  IsFinite(h) /\ ExactLe(h.m * price.m, h.e + price.e + 1, 1, EMin)

(***************************************************************************)
(* Claims about runTradingStrategy, checked under SpecStrategy.            *)
(***************************************************************************)
Days == DOMAIN summaryData
PrevCash(k) == IF k = 1 THEN CONFIG.initialCash ELSE summaryData[k - 1].cash
PrevHoldings(k) == IF k = 1 THEN Zero ELSE summaryData[k - 1].holdings
NoTradeUpTo(k) == \A j \in 1..k : summaryData[j].action = "HOLD"
BeforeFirstTrade(k) ==
  NoTradeUpTo(k) =>
    /\ summaryData[k].cash = CONFIG.initialCash
    /\ summaryData[k].holdings = Zero

\* the trade of day k rounded its result to zero
Underflowed(k) ==
  LET r == summaryData[k]
  IN  \/ r.action = "BUY" /\ QuotientUnderflows(PrevCash(k), r.price)
      \/ r.action = "SELL" /\ ProductUnderflows(PrevHoldings(k), r.price)

\* the step appends a ledger record
Appends == Len(summaryData') = Len(summaryData) + 1
Appended == summaryData'[Len(summaryData')]

\* C1 as stated: in every ledger record exactly one of cash == 0 and
\* holdings == 0 holds, and before the first trade cash == initialCash and
\* holdings == 0.
C1_ExactlyOneZero ==
  \A k \in Days :
    /\ (summaryData[k].cash = Zero) # (summaryData[k].holdings = Zero)
    /\ BeforeFirstTrade(k)

\* C1 amended: in every ledger record cash == 0 or holdings == 0 (never both
\* non-zero); both are zero exactly from the first trade on whose quotient
\* cash / price or product holdings * price is too small for a positive
\* Number; before the first trade cash == initialCash and holdings == 0.
C1_NeverBothNonZero ==
  \A k \in Days :
    /\ summaryData[k].cash = Zero \/ summaryData[k].holdings = Zero
    /\ (summaryData[k].cash = Zero /\ summaryData[k].holdings = Zero)
         <=> (\E j \in 1..k : Underflowed(j))
    /\ BeforeFirstTrade(k)

\* C1 witness: a ledger that was all in the asset, then all in cash again,
\* after a day before the first trade
C1_Witness ==
  /\ Len(summaryData) = 3
  /\ summaryData[1].action = "HOLD"
  /\ summaryData[2].action = "BUY"
  /\ FGt(summaryData[2].holdings, Zero) /\ summaryData[2].cash = Zero
  /\ summaryData[3].action = "SELL"
  /\ FGt(summaryData[3].cash, Zero) /\ summaryData[3].holdings = Zero

\* C2 as stated: BUY implies the position before that day was CASH and the
\* record has holdings > 0 and cash == 0; SELL implies the position before
\* was BTC and the record has cash > 0 and holdings == 0.
C2_TradeResultsPositive ==
  [][Appends =>
       /\ Appended.action = "BUY" =>
            /\ position = "CASH"
            /\ FGt(Appended.holdings, Zero)
            /\ Appended.cash = Zero
       /\ Appended.action = "SELL" =>
            /\ position = "BTC"
            /\ FGt(Appended.cash, Zero)
            /\ Appended.holdings = Zero]_vars

\* C2 amended: BUY implies the position before that day was CASH and the
\* record has cash == 0 and holdings >= 0, with holdings > 0 unless
\* cash / price is too small for a positive Number; SELL implies the position
\* before was BTC and the record has holdings == 0 and cash >= 0, with
\* cash > 0 unless holdings * price is too small for a positive Number.
C2_TradeResults ==
  [][Appends =>
       /\ Appended.action = "BUY" =>
            /\ position = "CASH"
            /\ Appended.cash = Zero
            /\ ~IsNaN(Appended.holdings)
            /\ FGt(Appended.holdings, Zero)
                 <=> ~QuotientUnderflows(cash, Appended.price)
       /\ Appended.action = "SELL" =>
            /\ position = "BTC"
            /\ Appended.holdings = Zero
            /\ ~IsNaN(Appended.cash)
            /\ FGt(Appended.cash, Zero)
                 <=> ~ProductUnderflows(btcHoldings, Appended.price)]_vars

\* C2 witness: a BUY with holdings > 0 followed by a SELL with cash > 0
C2_Witness ==
  \E k \in Days :
    /\ k > 1
    /\ summaryData[k - 1].action = "BUY"
    /\ FGt(summaryData[k - 1].holdings, Zero)
    /\ summaryData[k].action = "SELL"
    /\ FGt(summaryData[k].cash, Zero)

\* C3: each day emits BUY iff sma7 and sma30 are both present, sma7 > sma30
\* and the position is CASH (then holdings = cash / price, cash = 0, position
\* BTC); SELL iff both are present, sma7 < sma30 and the position is BTC (then
\* cash = holdings * price, holdings = 0, position CASH); HOLD otherwise.
\* Days are processed in order: the record appended is for the next row.
C3_TransitionRule ==
  [][Appends =>
       LET r == Appended
           present == r.sma7 # Null /\ r.sma30 # Null
           buy == present /\ FGt(r.sma7, r.sma30) /\ position = "CASH"
           sell == present /\ FLt(r.sma7, r.sma30) /\ position = "BTC"
       IN  /\ r.day = data'[Len(summaryData')].day
           /\ r.price = data'[Len(summaryData')].price
           /\ r.sma7 = data'[Len(summaryData')].sma7
           /\ r.sma30 = data'[Len(summaryData')].sma30
           /\ r.action = "BUY" <=> buy
           /\ r.action = "SELL" <=> sell
           /\ r.action = "HOLD" <=> ~buy /\ ~sell
           /\ buy => /\ btcHoldings' = FDiv(cash, r.price)
                     /\ cash' = Zero
                     /\ position' = "BTC"
           /\ sell => /\ cash' = FMul(btcHoldings, r.price)
                      /\ btcHoldings' = Zero
                      /\ position' = "CASH"]_vars

\* C3 witness: a BUY, a SELL and a HOLD on a day with sma7 == sma30
C3_Witness ==
  /\ \E k \in Days : summaryData[k].action = "BUY"
  /\ \E k \in Days : summaryData[k].action = "SELL"
  /\ \E k \in Days : /\ summaryData[k].action = "HOLD"
                     /\ summaryData[k].sma7 # Null
                     /\ summaryData[k].sma7 = summaryData[k].sma30

\* C4: on a HOLD day cash, holdings and position are unchanged and the
\* record's cash and holdings are those of the previous record (initialCash
\* and 0 on the first day); a day with sma7 or sma30 absent is a HOLD day.
C4_HoldFrame ==
  [][Appends =>
       LET r == Appended
           k == Len(summaryData')
       IN  /\ (r.sma7 = Null \/ r.sma30 = Null) => r.action = "HOLD"
           /\ r.action = "HOLD" =>
                /\ cash' = cash
                /\ btcHoldings' = btcHoldings
                /\ position' = position
                /\ r.cash = (IF k = 1 THEN CONFIG.initialCash
                             ELSE summaryData[k - 1].cash)
                /\ r.holdings = (IF k = 1 THEN Zero
                                 ELSE summaryData[k - 1].holdings)]_vars

\* C4 witness: a HOLD day with an average absent while holding the asset
C4_Witness ==
  \E k \in Days :
    /\ k > 1
    /\ summaryData[k].action = "HOLD"
    /\ summaryData[k].sma30 = Null
    /\ summaryData[k].sma7 # Null
    /\ FGt(summaryData[k].holdings, Zero)
    /\ summaryData[k].holdings = summaryData[k - 1].holdings

\* C5: every ledger record has portfolioValue >= 0 and portfolioValue ==
\* cash + holdings * price, over the cash, holdings and price of that record.
C5_PortfolioValue ==
  \A k \in Days :
    LET r == summaryData[k]
    IN  /\ ~IsNaN(r.portfolioValue)
        /\ r.portfolioValue = Zero \/ FGt(r.portfolioValue, Zero)
        /\ r.portfolioValue = FAdd(r.cash, FMul(r.holdings, r.price))

\* C5 witness: a record valued from its holdings, at a price other than the
\* one they were bought at
C5_Witness ==
  \E k \in Days :
    /\ k > 1
    /\ summaryData[k].action = "HOLD"
    /\ FGt(summaryData[k].holdings, Zero)
    /\ summaryData[k].price # summaryData[k - 1].price
    /\ summaryData[k].portfolioValue # summaryData[k - 1].portfolioValue

(***************************************************************************)
(* Claims about simulateBitcoinPrices and calculateMovingAverages.         *)
(***************************************************************************)
Runs == DOMAIN runs
Annotated == pc \in {"annotated", "strategy", "done"}

\* C6 as stated: any two runs of simulateBitcoinPrices with equal arguments
\* and the same configured seed return identical sequences.
C6_AnyTwoRunsAgree ==
  \A a, b \in Runs : runs[a].out = runs[b].out

\* C6 amended: two runs with equal arguments return identical sequences when
\* both start from the same generator state, as the first call after each
\* load of the script does (rng = new Random(CONFIG.seed)).
C6_RunsFromSameStateAgree ==
  \A a, b \in Runs :
    /\ (runs[a].fresh /\ runs[b].fresh) => runs[a].out = runs[b].out
    /\ runs[a].start = runs[b].start => runs[a].out = runs[b].out

\* C6 witness: two first calls after a load, and between them a second call
\* of the first load that returned another sequence
C6_Witness ==
  /\ Len(runs) = 3
  /\ runs[1].fresh /\ ~runs[2].fresh /\ runs[3].fresh
  /\ Len(runs[1].out) >= 3
  /\ runs[1].out[2].price # runs[1].out[1].price
  /\ runs[2].out # runs[1].out

\* C7: with days == 0 the generator returns an empty sequence and the
\* pipeline an empty ledger.
C7_ZeroDaysEmpty ==
  CONFIG.days = 0 =>
    /\ \A a \in Runs : runs[a].out = << >>
    /\ pc = "done" => summaryData = << >>

\* C8: for days >= 1 the generator returns exactly days records with day
\* fields 1, 2, ..., days in order, the first price initialPrice, and every
\* sma7 and sma30 null.
C8_GeneratedRecords ==
  CONFIG.days >= 1 =>
    \A a \in Runs :
      LET out == runs[a].out
      IN  /\ Len(out) = CONFIG.days
          /\ \A k \in 1..Len(out) :
               /\ out[k].day = k
               /\ out[k].sma7 = Null
               /\ out[k].sma30 = Null
          /\ out[1].price = CONFIG.initialPrice

\* C8 witness: a run of more than one day whose prices moved
C8_Witness ==
  /\ CONFIG.days >= 3
  /\ Len(runs) = 1
  /\ runs[1].out[3].price # CONFIG.initialPrice

\* C9: after calculateMovingAverages, sma7[i] is present iff i >= 6 and
\* sma30[i] is present iff i >= 29 (i 0-based).
C9_WindowPresence ==
  Annotated =>
    \A ix \in 0..(Len(data) - 1) :
      /\ data[ix + 1].sma7 # Null <=> ix >= 6
      /\ data[ix + 1].sma30 # Null <=> ix >= 29

\* C9 witness: an annotated sequence with both averages on its last day
C9_Witness ==
  /\ pc = "annotated"
  /\ Len(data) >= 30
  /\ data[Len(data)].sma30 # Null
  /\ data[6].sma7 = Null

\* the sum, in index order, of price over the 0-based indices lo..hi
RECURSIVE PriceSum(_, _)
PriceSum(lo, hi) ==
  IF hi < lo THEN Zero ELSE FAdd(PriceSum(lo, hi - 1), data[hi + 1].price)

\* C10: after calculateMovingAverages, for i >= 6 sma7[i] is the mean of
\* price over the 7 indices i-6..i and for i >= 29 sma30[i] is the mean of
\* price over the 30 indices i-29..i (prices at or before i only).
C10_WindowMeans ==
  Annotated =>
    \A ix \in 0..(Len(data) - 1) :
      /\ ix >= 6 => data[ix + 1].sma7 = FDivInt(PriceSum(ix - 6, ix), 7)
      /\ ix >= 29 => data[ix + 1].sma30 = FDivInt(PriceSum(ix - 29, ix), 30)

\* C10 witness: both averages present and different on a day after day 30,
\* over prices that moved
C10_Witness ==
  /\ pc = "annotated"
  /\ Len(data) >= 31
  /\ data[31].sma7 # data[31].sma30
  /\ data[31].sma30 # data[30].sma30
  /\ data[31].price # data[30].price


(***************************************************************************)
(* class Random: the recurrence as the integers define it                  *)
(***************************************************************************)
\* (a + b) mod 2^32 on two-limb values
Add32(a, b) ==
  LET lo == a.lo + b.lo
      hi == a.hi + b.hi + (lo \div LimbBase)
  IN  State(hi % LimbBase, lo % LimbBase)

\* (k * s) mod 2^32 for an integer k in 0..256
Times32(k, s) ==
  LET lo == k * s.lo
      hi == k * s.hi + (lo \div LimbBase)
  IN  State(hi % LimbBase, lo % LimbBase)

\* (1664525 * s) mod 2^32, by Horner's rule on the base-256 digits of
\* 1664525
TimesA32(s) ==
  LET d0 == 1664525 % 256
      d1 == (1664525 \div 256) % 256
      d2 == 1664525 \div (256 * 256)
      h2 == Times32(d2, s)
      h1 == Add32(Times32(256, h2), Times32(d1, s))
  IN  Add32(Times32(256, h1), Times32(d0, s))

\* s mod 2^32 for a state of either sign: the residue in [0, 2^32)
Residue(s) ==
  IF ~s.neg THEN State(s.hi, s.lo)
  ELSE LET lo == (LimbBase - s.lo) % LimbBase
           hi == (2 * LimbBase - s.hi - (IF s.lo = 0 THEN 0 ELSE 1)) % LimbBase
       IN  State(hi, lo)

\* (1664525 * s + 1013904223) mod 4294967296
LcgMod(s) ==
  Add32(TimesA32(Residue(s)),
        State(1013904223 \div LimbBase, 1013904223 % LimbBase))

\* an integer in [0, 4294967296) (its quotient by 4294967296 is in [0, 1))
InRange(s) == ~s.neg /\ s.hi \in 0..(LimbBase - 1) /\ s.lo \in 0..(LimbBase - 1)

RandomCalls == { k \in DOMAIN calls : calls[k].method = "random" }

\* C11: new Random(seed) sets the state to seed exactly, and after every
\* random() call the state is (1664525 * previous + 1013904223) mod
\* 4294967296, an integer in [0, 4294967296), so the value returned is in
\* [0, 1) -- for every integer seed.
C11_LcgStep ==
  /\ calls = << >> => seed = CONFIG.seed
  /\ \A k \in RandomCalls :
       /\ calls[k].after = LcgMod(calls[k].before)
       /\ InRange(calls[k].after)
       /\ k = Len(calls) => seed = calls[k].after

(***************************************************************************)
(* class Random: normal()                                                  *)
(***************************************************************************)
NormalCalls == { k \in DOMAIN calls : calls[k].method = "normal" }

\* the first draw of a loop while (x === 0) x = this.random() from state s,
\* and the one re-draw that follows a draw of exactly 0
FirstDraw(s) == RandomNext(s)
Redrawn(s) == UniformIsZero(FirstDraw(s))
AfterOneRedraw(s) == IF Redrawn(s) THEN RandomNext(FirstDraw(s)) ELSE FirstDraw(s)

\* C12: every call of normal() ends with u and v non-zero; a draw of exactly
\* 0 is re-drawn by one more random() call, the state that follows 0 is
\* 1013904223 (non-zero), and so at most one re-draw is made in a call, which
\* consumes 2 or 3 uniform draws.
C12_NormalDraws ==
  /\ RandomNext(State(0, 0)) =
       State(1013904223 \div LimbBase, 1013904223 % LimbBase)
  /\ \A k \in NormalCalls :
       LET c == calls[k]
           redraws == (IF Redrawn(c.before) THEN 1 ELSE 0)
                        + (IF Redrawn(c.u) THEN 1 ELSE 0)
       IN  /\ ~UniformIsZero(c.u) /\ ~UniformIsZero(c.v)
           /\ InRange(c.u) /\ InRange(c.v)
           /\ c.u = AfterOneRedraw(c.before)
           /\ c.v = AfterOneRedraw(c.u)
           /\ c.after = c.v
           /\ redraws <= 1
           /\ c.draws = 2 + redraws
           /\ c.draws \in {2, 3}

\* two calls of normal() in one run: the first re-drew u (3 draws), the
\* second made 2 draws
C12_Witness ==
  /\ Len(calls) >= 2
  /\ NormalCalls = DOMAIN calls
  /\ Redrawn(calls[1].before) /\ calls[1].draws = 3
  /\ calls[2].draws = 2

(***************************************************************************)
(* init() with a configuration that is not valid                           *)
(***************************************************************************)
\* C13: when the configuration is invalid the run stops before any
\* simulation step: no price record and no ledger record is produced and no
\* random draw is consumed.
C13_InvalidConfigurationIsFatal ==
  IsInvalid(CONFIG) =>
    /\ prices = << >> /\ data = << >> /\ runs = << >>
    /\ summaryData = << >>
    /\ calls = << >> /\ seed = CONFIG.seed

(***************************************************************************)
(* runTradingStrategy on a row whose price is 0                            *)
(***************************************************************************)
\* position when the callback of day k starts, read from the ledger
PositionBefore(k) ==
  LET trades == { j \in 1..(k - 1) : summaryData[j].action # "HOLD" }
      last == CHOOSE j \in trades : \A l \in trades : l <= j
  IN  IF trades # {} /\ summaryData[last].action = "BUY" THEN "BTC"
      ELSE "CASH"

\* the BUY condition holds on day k: both averages present, sma7 > sma30,
\* position CASH
BuyDay(k) ==
  /\ data[k].sma7 # Null /\ data[k].sma30 # Null
  /\ FGt(data[k].sma7, data[k].sma30)
  /\ PositionBefore(k) = "CASH"

\* C14: a record with price <= 0 on a day on which the BUY condition holds
\* is a fatal error: the BUY is not completed and no ledger record is
\* emitted for the day.
C14_ZeroPriceBuyIsFatal ==
  \A k \in Days : ~(IsZero(data[k].price) /\ BuyDay(k))

(***************************************************************************)
(* init(): fewer than 30 records                                           *)
(***************************************************************************)
\* C15: for an input of fewer than 30 records (sma30 is absent on every
\* day) every ledger record is HOLD with holdings 0 and cash = initialCash,
\* and its portfolioValue (the final one included) is initialCash exactly.
C15_ShortInputAllHold ==
  (pc \in {"strategy", "done"} /\ Len(data) < 30) =>
    /\ \A k \in DOMAIN data : data[k].sma30 = Null
    /\ \A k \in Days :
         /\ summaryData[k].action = "HOLD"
         /\ summaryData[k].holdings = Zero
         /\ summaryData[k].cash = CONFIG.initialCash
         /\ summaryData[k].portfolioValue = CONFIG.initialCash
    /\ pc = "done" => Len(summaryData) = Len(data)

\* a finished run of 29 days whose prices moved and whose sma7 is present
C15_Witness ==
  /\ pc = "done"
  /\ Len(data) = 29
  /\ Len(summaryData) = 29
  /\ summaryData[29].sma7 # Null
  /\ summaryData[29].price # CONFIG.initialPrice
  /\ summaryData[29].portfolioValue = CONFIG.initialCash

(***************************************************************************)
(* runTradingStrategy: the ledger and its input                            *)
(***************************************************************************)
\* C16: runTradingStrategy appends exactly one ledger record per input
\* record, in input order, whose day, price, sma7 and sma30 are those of
\* input record i; it does not modify the input records, and a record once
\* appended is never changed.
C16_OneRecordPerInput ==
  [][pc = "strategy" =>
       LET n == Len(summaryData)
       IN  /\ data' = data
           /\ \/ summaryData' = summaryData
              \/ /\ Len(summaryData') = n + 1
                 /\ SubSeq(summaryData', 1, n) = summaryData
                 /\ n + 1 <= Len(data)
                 /\ summaryData'[n + 1].day = data[n + 1].day
                 /\ summaryData'[n + 1].price = data[n + 1].price
                 /\ summaryData'[n + 1].sma7 = data[n + 1].sma7
                 /\ summaryData'[n + 1].sma30 = data[n + 1].sma30
           /\ pc' = "done" => n = Len(data) /\ summaryData' = summaryData
    ]_vars

\* a finished run of 31 days: one record per input record, the last with
\* both averages
C16_Witness ==
  /\ pc = "done"
  /\ Len(data) = 31
  /\ Len(summaryData) = 31
  /\ summaryData[31].sma30 # Null
  /\ summaryData[31].sma30 = data[31].sma30
  /\ summaryData[31].price # summaryData[1].price

(***************************************************************************)
(* simulateBitcoinPrices: the draws of one call                            *)
(***************************************************************************)
\* the state n calls of normal() after state s
RECURSIVE Advance(_, _)
Advance(s, n) ==
  IF n = 0 THEN s ELSE Advance(AfterOneRedraw(AfterOneRedraw(s)), n - 1)

\* C17: for days >= 1 one call of simulateBitcoinPrices calls rng.normal()
\* exactly days - 1 times, also when sigma = 0; the generator's state is
\* advanced by those calls and is not reset during a call or between the
\* calls of one load of the script.
C17_NormalCallsPerRun ==
  /\ pc = "simulate" =>
       /\ Len(calls) = i
       /\ seed = Advance(start.seed, i)
  /\ \A a \in Runs :
       LET r == runs[a]
           n == Len(r.calls)
       IN  /\ CONFIG.days >= 1 => n = CONFIG.days - 1
           /\ \A k \in 1..n :
                /\ r.calls[k].method = "normal"
                /\ r.calls[k].before = IF k = 1 THEN r.start
                                       ELSE r.calls[k - 1].after
                /\ r.calls[k].after # r.calls[k].before
           /\ r.end = IF n = 0 THEN r.start ELSE r.calls[n].after
           /\ r.end = Advance(r.start, n)
           /\ (a > 1 /\ ~r.fresh) => r.start = runs[a - 1].end
           /\ r.fresh => r.start = CONFIG.seed

\* two calls in one load with sigma = 0 and days = MaxRunDays: the second
\* starts where the first left the generator, and both made days - 1 calls
C17_Witness ==
  /\ Len(runs) >= 2
  /\ CONFIG.sigma = 0
  /\ CONFIG.days = MaxRunDays
  /\ ~runs[2].fresh
  /\ Len(runs[1].calls) = MaxRunDays - 1
  /\ Len(runs[2].calls) = MaxRunDays - 1
  /\ runs[2].start # CONFIG.seed
  /\ runs[2].end # runs[2].start

(***************************************************************************)
(* class Random: exactness of the recurrence in double precision           *)
(***************************************************************************)
\* the integer with limbs x is below 2^53 = 32 * 2^48
Below2To53(x) == x[4] < 32

\* C18: for every state s in [0, 4294967296) the intermediate value
\* 1664525 * s + 1013904223 (and the product before it) is below 2^53, so
\* the recurrence is evaluated exactly in double precision.
C18_IntermediateExact ==
  /\ InRange(seed) =>
       /\ Below2To53(Product(seed))
       /\ Below2To53(Intermediate(seed).limbs)
  /\ \A k \in RandomCalls :
       InRange(calls[k].before) =>
         /\ Below2To53(Intermediate(calls[k].before).limbs)
         /\ calls[k].after = LcgMod(calls[k].before)

\* random() was called on the largest state 2^32 - 1, whose intermediate
\* value 7149081450614098 is the largest of all (top limb 25)
C18_Witness ==
  /\ Len(calls) >= 1
  /\ calls[1].method = "random"
  /\ calls[1].before = State(LimbBase - 1, LimbBase - 1)
  /\ Intermediate(calls[1].before).limbs[4] = 25
  /\ calls[1].after = State(15445, 36178)

(***************************************************************************)
(* runTradingStrategy: the order of the trades                             *)
(***************************************************************************)
\* the non-HOLD actions alternate BUY, SELL, BUY, ... starting with BUY: a
\* BUY follows no trade or a SELL, a SELL follows a BUY
Alternate ==
  \A k \in Days :
    /\ summaryData[k].action = "BUY" => PositionBefore(k) = "CASH"
    /\ summaryData[k].action = "SELL" => PositionBefore(k) = "BTC"

\* no BUY or SELL before day 30
NoTradeBeforeDay30 ==
  \A k \in Days : summaryData[k].day < 30 => summaryData[k].action = "HOLD"

\* the input of runTradingStrategy was annotated by calculateMovingAverages
FromMovingAverages == passes # << >>

\* C19 as stated: in any ledger the non-HOLD actions alternate BUY, SELL,
\* BUY, ... starting with BUY, and no BUY or SELL occurs before day 30.
C19_AlternateFromDay30 == Alternate /\ NoTradeBeforeDay30

\* C19 amended: in any ledger the non-HOLD actions alternate BUY, SELL, BUY,
\* ... starting with BUY; no BUY or SELL occurs before day 30 when the input
\* records are those of calculateMovingAverages.
C19_AlternateAndLate ==
  /\ Alternate
  /\ FromMovingAverages => NoTradeBeforeDay30

\* a ledger with BUY, SELL, BUY on three consecutive days
C19_Witness ==
  /\ Len(summaryData) = 3
  /\ summaryData[1].action = "BUY"
  /\ summaryData[2].action = "SELL"
  /\ summaryData[3].action = "BUY"

(***************************************************************************)
(* calculateMovingAverages: what it changes, and applying it twice         *)
(***************************************************************************)
\* arr has the records of the generator's output out, in order, with the
\* same day and price and no field but sma7 and sma30 besides
SameDaysAndPrices(arr, out) ==
  /\ Len(arr) = Len(out)
  /\ \A k \in DOMAIN arr :
       /\ DOMAIN arr[k] = {"day", "price", "sma7", "sma30"}
       /\ arr[k].day = out[k].day
       /\ arr[k].price = out[k].price

\* C20: calculateMovingAverages changes only the sma7 and sma30 fields (the
\* sequence's length and order and each record's day and price stay), and
\* applied to the sequence it returned it returns the same sma7 and sma30.
C20_FrameAndIdempotent ==
  /\ pc = "averages" => SameDaysAndPrices(data, runs[1].out)
  /\ \A p \in DOMAIN passes :
       /\ SameDaysAndPrices(passes[p], runs[1].out)
       /\ \A k \in DOMAIN passes[p] :
            /\ passes[p][k].sma7 = passes[1][k].sma7
            /\ passes[p][k].sma30 = passes[1][k].sma30

\* calculateMovingAverages was applied twice to 31 days of moving prices,
\* and both averages are present on the last day
C20_Witness ==
  /\ Len(passes) = 2
  /\ Len(passes[2]) = 31
  /\ passes[2][31].sma7 # Null /\ passes[2][31].sma30 # Null
  /\ passes[2][31].sma7 # passes[2][31].sma30
  /\ passes[2][31].price # passes[2][1].price
  /\ passes[1][1].sma7 = Null

=============================================================================
